---- MODULE Spec2Model ----
(***************************************************************************)
(* Page-frame replacement under three policies, each its own program:      *)
(*   LRU   (src/unnamed/part_001)  doubly linked list, move-to-head on hit *)
(*   LFU   (src/unnamed/part_000)  doubly linked list, frequency counters  *)
(*   Clock (src/LRU-CLOCK.c)       fixed array, reference bits, clock hand *)
(* The variable policy says which program a behaviour runs.  The linked    *)
(* lists are modelled at the level of the pointers the C code assigns.     *)
(***************************************************************************)
EXTENDS Integers, Sequences, FiniteSets, TLC

NUM_FRAMES == 4

EMPTY == -1

NULL == 0

\* ---- bounds of the model ----
MaxPage == 5

\* hits a trace may have standing in the frequency counters of the LFU
\* list (the counters are ints and grow without limit in the program)
MaxHits == 4

ScanFuel == 9

\* page identifiers passed to loadPage: the sentinel and 1..MaxPage
Pages == {EMPTY} \cup (1..MaxPage)

\* heap addresses for list nodes: loadPage allocates before it frees, so
\* at most NUM_FRAMES + 1 nodes are live at once
Addr == 1..(NUM_FRAMES + 1)

Slots == 0..(NUM_FRAMES - 1)

Policies == {"LRU", "LFU", "Clock"}

VARIABLES policy, mem, head, tail, numFrames, frames, clockHand, last, mru, newest,
          hits, fifo

vars == <<policy, mem, head, tail, numFrames, frames, clockHand, last, mru, newest,
          hits, fifo>>

\* ------------------------------------------------------------------------
\* Heap of list nodes (struct Frame of the LRU and LFU programs)
\* ------------------------------------------------------------------------

\* a cell that is not allocated
FreeNode == [alloc |-> FALSE, page |-> EMPTY, valid |-> FALSE, frequency |-> 0,
             prev |-> NULL, next |-> NULL]

\* the list object: the FrameList fields and the heap they point into
FrameList == [mem |-> mem, head |-> head, tail |-> tail, numFrames |-> numFrames]

\* malloc: addresses are opaque to the program, the lowest free one is taken
malloc(fl) == CHOOSE a \in Addr : /\ ~fl.mem[a].alloc
                                  /\ \A b \in Addr : b < a => fl.mem[b].alloc

\* addresses reached from a by next, in order, stopping at NULL (or at a
\* node already seen, which only a malformed list has)
RECURSIVE Walk(_, _, _)
Walk(fl, a, acc) ==
    IF a = NULL \/ (\E i \in 1..Len(acc) : acc[i] = a) THEN acc
    ELSE Walk(fl, fl.mem[a].next, Append(acc, a))

Nodes(fl) == Walk(fl, fl.head, <<>>)

\* The program compares addresses only for equality, so a state is kept up
\* to renaming of addresses: the i-th node from head is moved to address i,
\* other allocated cells follow in address order, free cells come last.
RECURSIVE Ascending(_)
Ascending(S) ==
    IF S = {} THEN <<>>
    ELSE LET m == CHOOSE x \in S : \A y \in S : x <= y
         IN <<m>> \o Ascending(S \ {m})

Canon(fl) ==
    LET reach == Nodes(fl)
        inList == {reach[i] : i \in 1..Len(reach)}
        other == {a \in Addr : fl.mem[a].alloc /\ a \notin inList}
        free == {a \in Addr : ~fl.mem[a].alloc /\ a \notin inList}
        order == reach \o Ascending(other) \o Ascending(free)
        ren(a) == IF a = NULL THEN NULL
                  ELSE CHOOSE i \in 1..Len(order) : order[i] = a
    IN [mem |-> [i \in Addr |-> [fl.mem[order[i]] EXCEPT
                                    !.prev = ren(@), !.next = ren(@)]],
        head |-> ren(fl.head),
        tail |-> ren(fl.tail),
        numFrames |-> fl.numFrames]

\* ------------------------------------------------------------------------
\* LRU program (src/unnamed/part_001)
\* ------------------------------------------------------------------------

\* createFrame: returns the list with the new cell and the cell's address
LRU_createFrame(fl) ==
    LET a == malloc(fl)
    IN [fl |-> [fl EXCEPT !.mem[a] = [alloc |-> TRUE, page |-> EMPTY, valid |-> FALSE,
                                      frequency |-> 0, prev |-> NULL, next |-> NULL]],
        frame |-> a]

LRU_insertFrame(fl, frame) ==
    IF fl.head = NULL
    THEN [fl EXCEPT !.head = frame, !.tail = frame, !.numFrames = @ + 1]
    ELSE LET s1 == [fl EXCEPT !.mem[frame].next = fl.head]
             s2 == [s1 EXCEPT !.mem[s1.head].prev = frame]
             s3 == [s2 EXCEPT !.head = frame]
         IN [s3 EXCEPT !.numFrames = @ + 1]

\* moveToHead without "frame->next = frameList->head"
LRU_moveToHead_keepNext(fl, frame) ==
    IF fl.head = frame THEN fl
    ELSE LET s1 == IF fl.mem[frame].prev # NULL
                   THEN [fl EXCEPT !.mem[fl.mem[frame].prev].next = fl.mem[frame].next]
                   ELSE fl
             s2 == IF s1.mem[frame].next # NULL
                   THEN [s1 EXCEPT !.mem[s1.mem[frame].next].prev = s1.mem[frame].prev]
                   ELSE s1
             s3 == IF s2.tail = frame
                   THEN [s2 EXCEPT !.tail = s2.mem[frame].prev]
                   ELSE s2
             s5 == [s3 EXCEPT !.mem[frame].prev = NULL]
             s6 == IF s5.head # NULL
                   THEN [s5 EXCEPT !.mem[s5.head].prev = frame]
                   ELSE s5
             s7 == [s6 EXCEPT !.head = frame]
         IN IF s7.tail = NULL THEN [s7 EXCEPT !.tail = frame] ELSE s7

\* moveToHead without the update of tail when the tail is moved
LRU_moveToHead_keepTail(fl, frame) ==
    IF fl.head = frame THEN fl
    ELSE LET s1 == IF fl.mem[frame].prev # NULL
                   THEN [fl EXCEPT !.mem[fl.mem[frame].prev].next = fl.mem[frame].next]
                   ELSE fl
             s2 == IF s1.mem[frame].next # NULL
                   THEN [s1 EXCEPT !.mem[s1.mem[frame].next].prev = s1.mem[frame].prev]
                   ELSE s1
             s4 == [s2 EXCEPT !.mem[frame].next = s2.head]
             s5 == [s4 EXCEPT !.mem[frame].prev = NULL]
             s6 == IF s5.head # NULL
                   THEN [s5 EXCEPT !.mem[s5.head].prev = frame]
                   ELSE s5
             s7 == [s6 EXCEPT !.head = frame]
         IN IF s7.tail = NULL THEN [s7 EXCEPT !.tail = frame] ELSE s7

LRU_moveToHead(fl, frame) ==
    IF fl.head = frame THEN fl
    ELSE LET s1 == IF fl.mem[frame].prev # NULL
                   THEN [fl EXCEPT !.mem[fl.mem[frame].prev].next = fl.mem[frame].next]
                   ELSE fl
             s2 == IF s1.mem[frame].next # NULL
                   THEN [s1 EXCEPT !.mem[s1.mem[frame].next].prev = s1.mem[frame].prev]
                   ELSE s1
             s3 == IF s2.tail = frame
                   THEN [s2 EXCEPT !.tail = s2.mem[frame].prev]
                   ELSE s2
             s4 == [s3 EXCEPT !.mem[frame].next = s3.head]
             s5 == [s4 EXCEPT !.mem[frame].prev = NULL]
             s6 == IF s5.head # NULL
                   THEN [s5 EXCEPT !.mem[s5.head].prev = frame]
                   ELSE s5
             s7 == [s6 EXCEPT !.head = frame]
         IN IF s7.tail = NULL THEN [s7 EXCEPT !.tail = frame] ELSE s7

LRU_removeFrame(fl, frame) ==
    LET s1 == IF fl.mem[frame].prev # NULL
              THEN [fl EXCEPT !.mem[fl.mem[frame].prev].next = fl.mem[frame].next]
              ELSE [fl EXCEPT !.head = fl.mem[frame].next]
        s2 == IF s1.mem[frame].next # NULL
              THEN [s1 EXCEPT !.mem[s1.mem[frame].next].prev = s1.mem[frame].prev]
              ELSE [s1 EXCEPT !.tail = s1.mem[frame].prev]
        s3 == [s2 EXCEPT !.numFrames = @ - 1]
    IN [s3 EXCEPT !.mem[frame] = FreeNode]

RECURSIVE LRU_findFrom(_, _, _)
LRU_findFrom(fl, current, page) ==
    IF current = NULL THEN NULL
    ELSE IF fl.mem[current].page = page THEN current
    ELSE LRU_findFrom(fl, fl.mem[current].next, page)

LRU_findFrame(fl, page) == LRU_findFrom(fl, fl.head, page)

\* loadPage that evicts only once the list is longer than NUM_FRAMES
LRU_load_lateEvict(fl, page) ==
    LET frame == LRU_findFrame(fl, page)
    IN IF frame # NULL THEN LRU_moveToHead(fl, frame)
       ELSE LET c == LRU_createFrame(fl)
                s1 == [c.fl EXCEPT !.mem[c.frame].page = page]
                s2 == [s1 EXCEPT !.mem[c.frame].valid = TRUE]
                s3 == IF s2.numFrames > NUM_FRAMES
                      THEN LRU_removeFrame(s2, s2.tail)
                      ELSE s2
            IN LRU_insertFrame(s3, c.frame)

\* loadPage that evicts the head instead of the tail
LRU_load_evictHead(fl, page) ==
    LET frame == LRU_findFrame(fl, page)
    IN IF frame # NULL THEN LRU_moveToHead(fl, frame)
       ELSE LET c == LRU_createFrame(fl)
                s1 == [c.fl EXCEPT !.mem[c.frame].page = page]
                s2 == [s1 EXCEPT !.mem[c.frame].valid = TRUE]
                s3 == IF s2.numFrames = NUM_FRAMES
                      THEN LRU_removeFrame(s2, s2.head)
                      ELSE s2
            IN LRU_insertFrame(s3, c.frame)

\* loadPage as a function of the list: the list after the call
LRU_load(fl, page) ==
    LET frame == LRU_findFrame(fl, page)
    IN IF frame # NULL THEN LRU_moveToHead(fl, frame)
       ELSE LET c == LRU_createFrame(fl)
                s1 == [c.fl EXCEPT !.mem[c.frame].page = page]
                s2 == [s1 EXCEPT !.mem[c.frame].valid = TRUE]
                s3 == IF s2.numFrames = NUM_FRAMES
                      THEN LRU_removeFrame(s2, s2.tail)
                      ELSE s2
            IN LRU_insertFrame(s3, c.frame)

\* ------------------------------------------------------------------------
\* LFU program (src/unnamed/part_000)
\* ------------------------------------------------------------------------

LFU_createFrame(fl) ==
    LET a == malloc(fl)
    IN [fl |-> [fl EXCEPT !.mem[a] = [alloc |-> TRUE, page |-> EMPTY, valid |-> FALSE,
                                      frequency |-> 0, prev |-> NULL, next |-> NULL]],
        frame |-> a]

\* insertFrame without "frameList->head = frame" on a non-empty list
LFU_insertFrame_keepHead(fl, frame) ==
    IF fl.head = NULL
    THEN [fl EXCEPT !.head = frame, !.tail = frame, !.numFrames = @ + 1]
    ELSE LET s1 == [fl EXCEPT !.mem[frame].next = fl.head]
             s2 == [s1 EXCEPT !.mem[s1.head].prev = frame]
         IN [s2 EXCEPT !.numFrames = @ + 1]

LFU_insertFrame(fl, frame) ==
    IF fl.head = NULL
    THEN [fl EXCEPT !.head = frame, !.tail = frame, !.numFrames = @ + 1]
    ELSE LET s1 == [fl EXCEPT !.mem[frame].next = fl.head]
             s2 == [s1 EXCEPT !.mem[s1.head].prev = frame]
             s3 == [s2 EXCEPT !.head = frame]
         IN [s3 EXCEPT !.numFrames = @ + 1]

\* removeFrame ending the list at the victim's predecessor
LFU_removeFrame_cutTail(fl, frame) ==
    LET s1 == IF fl.mem[frame].prev # NULL
              THEN [fl EXCEPT !.mem[fl.mem[frame].prev].next = NULL]
              ELSE [fl EXCEPT !.head = fl.mem[frame].next]
        s2 == IF s1.mem[frame].next # NULL
              THEN [s1 EXCEPT !.mem[s1.mem[frame].next].prev = s1.mem[frame].prev]
              ELSE [s1 EXCEPT !.tail = s1.mem[frame].prev]
        s3 == [s2 EXCEPT !.numFrames = @ - 1]
    IN [s3 EXCEPT !.mem[frame] = FreeNode]

LFU_removeFrame(fl, frame) ==
    LET s1 == IF fl.mem[frame].prev # NULL
              THEN [fl EXCEPT !.mem[fl.mem[frame].prev].next = fl.mem[frame].next]
              ELSE [fl EXCEPT !.head = fl.mem[frame].next]
        s2 == IF s1.mem[frame].next # NULL
              THEN [s1 EXCEPT !.mem[s1.mem[frame].next].prev = s1.mem[frame].prev]
              ELSE [s1 EXCEPT !.tail = s1.mem[frame].prev]
        s3 == [s2 EXCEPT !.numFrames = @ - 1]
    IN [s3 EXCEPT !.mem[frame] = FreeNode]

RECURSIVE LFU_findFrom(_, _, _)
LFU_findFrom(fl, current, page) ==
    IF current = NULL THEN NULL
    ELSE IF fl.mem[current].page = page THEN current
    ELSE LFU_findFrom(fl, fl.mem[current].next, page)

LFU_findFrame(fl, page) == LFU_findFrom(fl, fl.head, page)

\* the victim scan with <= for <
RECURSIVE LFU_scan_le(_, _, _)
LFU_scan_le(fl, current, lfuFrame) ==
    IF current = NULL THEN lfuFrame
    ELSE LFU_scan_le(fl, fl.mem[current].next,
                     IF fl.mem[current].frequency <= fl.mem[lfuFrame].frequency
                     THEN current ELSE lfuFrame)

\* the victim scan of loadPage: the while loop from current, lfuFrame so far
RECURSIVE LFU_scan(_, _, _)
LFU_scan(fl, current, lfuFrame) ==
    IF current = NULL THEN lfuFrame
    ELSE LFU_scan(fl, fl.mem[current].next,
                  IF fl.mem[current].frequency < fl.mem[lfuFrame].frequency
                  THEN current ELSE lfuFrame)

\* the victim scan with the tail as its first candidate
LFU_victim_fromTail(fl) == LFU_scan(fl, fl.head, fl.tail)

\* lfuFrame and current both start at head (lines 149-150)
LFU_victim(fl) == LFU_scan(fl, fl.head, fl.head)

\* loadPage whose hit branch also moves the frame to the head of the list
LFU_load_hitToHead(fl, page) ==
    LET frame == LFU_findFrame(fl, page)
    IN IF frame # NULL
       THEN LRU_moveToHead([fl EXCEPT !.mem[frame].frequency = @ + 1], frame)
       ELSE LET c == LFU_createFrame(fl)
                s1 == [c.fl EXCEPT !.mem[c.frame].page = page]
                s2 == [s1 EXCEPT !.mem[c.frame].valid = TRUE]
                s3 == [s2 EXCEPT !.mem[c.frame].frequency = 1]
                s4 == IF s3.numFrames = NUM_FRAMES
                      THEN LFU_removeFrame(s3, LFU_victim(s3))
                      ELSE s3
            IN LFU_insertFrame(s4, c.frame)

\* loadPage without "frame->frequency = 1"
LFU_load_noFirstCount(fl, page) ==
    LET frame == LFU_findFrame(fl, page)
    IN IF frame # NULL THEN [fl EXCEPT !.mem[frame].frequency = @ + 1]
       ELSE LET c == LFU_createFrame(fl)
                s1 == [c.fl EXCEPT !.mem[c.frame].page = page]
                s2 == [s1 EXCEPT !.mem[c.frame].valid = TRUE]
                s4 == IF s2.numFrames = NUM_FRAMES
                      THEN LFU_removeFrame(s2, LFU_victim(s2))
                      ELSE s2
            IN LFU_insertFrame(s4, c.frame)

LFU_load(fl, page) ==
    LET frame == LFU_findFrame(fl, page)
    IN IF frame # NULL THEN [fl EXCEPT !.mem[frame].frequency = @ + 1]
       ELSE LET c == LFU_createFrame(fl)
                s1 == [c.fl EXCEPT !.mem[c.frame].page = page]
                s2 == [s1 EXCEPT !.mem[c.frame].valid = TRUE]
                s3 == [s2 EXCEPT !.mem[c.frame].frequency = 1]
                s4 == IF s3.numFrames = NUM_FRAMES
                      THEN LFU_removeFrame(s3, LFU_victim(s3))
                      ELSE s3
            IN LFU_insertFrame(s4, c.frame)

\* ------------------------------------------------------------------------
\* Clock program (src/LRU-CLOCK.c)
\* ------------------------------------------------------------------------

\* findFrame's "not in the list" result
NotFound == -1

EmptyFrame == [page |-> EMPTY, valid |-> FALSE, reference |-> FALSE]

RECURSIVE Clock_findFrom(_, _, _)
Clock_findFrom(fr, i, page) ==
    IF i >= NUM_FRAMES THEN NotFound
    ELSE IF fr[i].page = page THEN i
    ELSE Clock_findFrom(fr, i + 1, page)

\* findFrame whose loop starts at index 1
Clock_findFrame_skipFirst(fr, page) == Clock_findFrom(fr, 1, page)

Clock_findFrame(fr, page) == Clock_findFrom(fr, 0, page)

\* the scan without "reference = false" in its else branch
RECURSIVE Clock_scan_noClear(_, _, _, _)
Clock_scan_noClear(fr, hand, page, steps) ==
    IF steps >= ScanFuel
    THEN [frames |-> fr, clockHand |-> hand, steps |-> steps, done |-> FALSE]
    ELSE IF ~fr[hand].valid \/ ~fr[hand].reference
    THEN [frames |-> [fr EXCEPT ![hand] = [page |-> page, valid |-> TRUE,
                                            reference |-> TRUE]],
          clockHand |-> (hand + 1) % NUM_FRAMES,
          steps |-> steps + 1, done |-> TRUE]
    ELSE Clock_scan_noClear(fr, (hand + 1) % NUM_FRAMES, page, steps + 1)

\* the scan without the advance of the hand after it claims a slot
RECURSIVE Clock_scan_noAdvance(_, _, _, _)
Clock_scan_noAdvance(fr, hand, page, steps) ==
    IF steps >= ScanFuel
    THEN [frames |-> fr, clockHand |-> hand, steps |-> steps, done |-> FALSE]
    ELSE IF ~fr[hand].valid \/ ~fr[hand].reference
    THEN [frames |-> [fr EXCEPT ![hand] = [page |-> page, valid |-> TRUE,
                                            reference |-> TRUE]],
          clockHand |-> hand,
          steps |-> steps + 1, done |-> TRUE]
    ELSE Clock_scan_noAdvance([fr EXCEPT ![hand].reference = FALSE],
                              (hand + 1) % NUM_FRAMES, page, steps + 1)

\* the scan claiming a slot by its reference bit alone, valid unread
RECURSIVE Clock_scan_refOnly(_, _, _, _)
Clock_scan_refOnly(fr, hand, page, steps) ==
    IF steps >= ScanFuel
    THEN [frames |-> fr, clockHand |-> hand, steps |-> steps, done |-> FALSE]
    ELSE IF ~fr[hand].reference
    THEN [frames |-> [fr EXCEPT ![hand] = [page |-> page, valid |-> TRUE,
                                            reference |-> TRUE]],
          clockHand |-> (hand + 1) % NUM_FRAMES,
          steps |-> steps + 1, done |-> TRUE]
    ELSE Clock_scan_refOnly([fr EXCEPT ![hand].reference = FALSE],
                            (hand + 1) % NUM_FRAMES, page, steps + 1)

\* the scan with the hand moved back, not forward, past a referenced slot
RECURSIVE Clock_scan_backward(_, _, _, _)
Clock_scan_backward(fr, hand, page, steps) ==
    IF steps >= ScanFuel
    THEN [frames |-> fr, clockHand |-> hand, steps |-> steps, done |-> FALSE]
    ELSE IF ~fr[hand].valid \/ ~fr[hand].reference
    THEN [frames |-> [fr EXCEPT ![hand] = [page |-> page, valid |-> TRUE,
                                            reference |-> TRUE]],
          clockHand |-> (hand + 1) % NUM_FRAMES,
          steps |-> steps + 1, done |-> TRUE]
    ELSE Clock_scan_backward([fr EXCEPT ![hand].reference = FALSE],
                             (hand + NUM_FRAMES - 1) % NUM_FRAMES, page, steps + 1)

\* the while (true) loop of loadPage, one iteration per unfolding; steps
\* counts the iterations, done is FALSE when ScanFuel iterations did not
\* reach the break
RECURSIVE Clock_scan(_, _, _, _)
Clock_scan(fr, hand, page, steps) ==
    IF steps >= ScanFuel
    THEN [frames |-> fr, clockHand |-> hand, steps |-> steps, done |-> FALSE]
    ELSE IF ~fr[hand].valid \/ ~fr[hand].reference
    THEN [frames |-> [fr EXCEPT ![hand] = [page |-> page, valid |-> TRUE,
                                            reference |-> TRUE]],
          clockHand |-> (hand + 1) % NUM_FRAMES,
          steps |-> steps + 1, done |-> TRUE]
    ELSE Clock_scan([fr EXCEPT ![hand].reference = FALSE],
                    (hand + 1) % NUM_FRAMES, page, steps + 1)

\* loadPage whose hit branch also advances the hand
Clock_load_hitAdvances(fr, hand, page) ==
    LET frameIndex == Clock_findFrame(fr, page)
    IN IF frameIndex # NotFound
       THEN [frames |-> [fr EXCEPT ![frameIndex].reference = TRUE],
             clockHand |-> (hand + 1) % NUM_FRAMES, steps |-> 0, done |-> TRUE]
       ELSE Clock_scan(fr, hand, page, 0)

\* loadPage whose scan also runs after a hit (the else is missing)
Clock_load_noElse(fr, hand, page) ==
    LET frameIndex == Clock_findFrame(fr, page)
    IN IF frameIndex # NotFound
       THEN Clock_scan([fr EXCEPT ![frameIndex].reference = TRUE], hand, page, 0)
       ELSE Clock_scan(fr, hand, page, 0)

\* loadPage whose scan starts at slot 0, not at the hand
Clock_load_scanFromZero(fr, hand, page) ==
    LET frameIndex == Clock_findFrame(fr, page)
    IN IF frameIndex # NotFound
       THEN [frames |-> [fr EXCEPT ![frameIndex].reference = TRUE],
             clockHand |-> hand, steps |-> 0, done |-> TRUE]
       ELSE Clock_scan(fr, 0, page, 0)

Clock_load(fr, hand, page) ==
    LET frameIndex == Clock_findFrame(fr, page)
    IN IF frameIndex # NotFound
       THEN [frames |-> [fr EXCEPT ![frameIndex].reference = TRUE],
             clockHand |-> hand, steps |-> 0, done |-> TRUE]
       ELSE Clock_scan(fr, hand, page, 0)

\* ------------------------------------------------------------------------
\* The programs as state machines: one loadPage call per step
\* ------------------------------------------------------------------------

\* Observation of the last call (not program state): the branch it took
\* (kind), its argument (page), the loop iterations of a Clock scan (steps),
\* (LRU) whether the call before it was a hit on the same argument (again),
\* and what it discarded (evict):
\*   "none"    nothing
\*   "tail"    LRU: the tail of the list
\*   "slot"    Clock: the page of the slot it claimed
\*   LFU: "fresh" the newest page, never hit since its admission, no other
\*        page hit since then either; "freshHits" the same after hits on
\*        other pages; "head" the head otherwise; "behind" a frame behind
\*        the head
NoCall == [kind |-> "none", page |-> EMPTY, evict |-> "none", steps |-> 0,
           again |-> FALSE]

Init ==
    /\ policy \in Policies
    /\ mem = [a \in Addr |-> FreeNode]
    /\ head = NULL
    /\ tail = NULL
    /\ numFrames = 0
    /\ frames = [i \in Slots |-> EmptyFrame]
    /\ clockHand = 0
    /\ last = NoCall
    /\ mru = <<>>
    /\ newest = <<>>
    /\ hits = [p \in Pages |-> 0]
    /\ fifo = [q |-> <<>>, allMiss |-> TRUE]

\* A FIFO queue of capacity NUM_FRAMES, oldest page first: the queue after
\* a request for page
FIFO_load(q, page) ==
    IF \E i \in 1..Len(q) : q[i] = page THEN q
    ELSE IF Len(q) = NUM_FRAMES THEN Append(Tail(q), page)
    ELSE Append(q, page)

\* s without the element x
Without(s, x) == SelectSeq(s, LAMBDA y : y # x)

\* (a value bound by \E over a singleton set is computed once)
LRU_loadPage(page) ==
    /\ policy = "LRU"
    /\ \E fl \in {FrameList} :
       \E frame \in {LRU_findFrame(fl, page)} :
       \E loaded \in {LRU_load(fl, page)} :
       \E r \in {Canon(loaded)} :
          LET evicts == frame = NULL /\ fl.numFrames = NUM_FRAMES
          IN /\ mem' = r.mem
             /\ head' = r.head
             /\ tail' = r.tail
             /\ numFrames' = r.numFrames
             /\ last' = [kind |-> IF frame # NULL THEN "hit" ELSE "miss",
                         page |-> page,
                         evict |-> IF evicts THEN "tail" ELSE "none",
                         steps |-> 0,
                         again |-> last.kind = "hit" /\ last.page = page]
    /\ mru' = <<page>> \o Without(mru, page)
    /\ UNCHANGED <<policy, frames, clockHand, newest, hits, fifo>>

\* hits counted in the frequency fields of the list from current on
RECURSIVE LFU_hitsHeld(_, _)
LFU_hitsHeld(fl, current) ==
    IF current = NULL THEN 0
    ELSE (fl.mem[current].frequency - 1) + LFU_hitsHeld(fl, fl.mem[current].next)

LFU_loadPage(page) ==
    /\ policy = "LFU"
    /\ \E fl \in {FrameList} :
       \E frame \in {LFU_findFrame(fl, page)} :
          /\ \E loaded \in {LFU_load(fl, page)} :
             \E r \in {Canon(loaded)} :
                LET evicts == frame = NULL /\ fl.numFrames = NUM_FRAMES
                IN /\ mem' = r.mem
                   /\ head' = r.head
                   /\ tail' = r.tail
                   /\ numFrames' = r.numFrames
                   /\ last' = [kind |-> IF frame # NULL THEN "hit" ELSE "miss",
                               page |-> page,
                               evict |-> IF ~evicts THEN "none"
                                         ELSE IF LFU_victim(fl) # fl.head THEN "behind"
                                         ELSE IF newest = <<>> THEN "head"
                                         ELSE IF newest[2] THEN "freshHits"
                                         ELSE "fresh",
                               steps |-> 0,
                               again |-> FALSE]
                   /\ newest' = IF frame = NULL THEN <<page, FALSE>>
                                ELSE IF newest = <<>> \/ newest[1] = page THEN <<>>
                                ELSE <<newest[1], TRUE>>
                   /\ hits' = IF frame # NULL THEN [hits EXCEPT ![page] = @ + 1]
                              ELSE IF ~evicts THEN [hits EXCEPT ![page] = 0]
                              ELSE [hits EXCEPT ![fl.mem[LFU_victim(fl)].page] = 0,
                                                ![page] = 0]
    /\ UNCHANGED <<policy, frames, clockHand, mru, fifo>>

Clock_loadPage(page) ==
    /\ policy = "Clock"
    /\ \E frameIndex \in {Clock_findFrame(frames, page)} :
       \E r \in {Clock_load(frames, clockHand, page)} :
          LET claimed == (r.clockHand + NUM_FRAMES - 1) % NUM_FRAMES
              evicts == frameIndex = NotFound /\ r.done /\ frames[claimed].valid
          IN /\ frames' = r.frames
             /\ clockHand' = r.clockHand
             /\ last' = [kind |-> IF frameIndex # NotFound THEN "hit"
                                  ELSE IF r.done THEN "miss" ELSE "diverged",
                         page |-> page,
                         evict |-> IF evicts THEN "slot" ELSE "none",
                         steps |-> r.steps,
                         again |-> FALSE]
             /\ fifo' = IF fifo.allMiss /\ frameIndex = NotFound
                        THEN [q |-> FIFO_load(fifo.q, page), allMiss |-> TRUE]
                        ELSE [q |-> <<>>, allMiss |-> FALSE]
    /\ UNCHANGED <<policy, mem, head, tail, numFrames, mru, newest, hits>>

\* The requests the model draws for the LFU program in the current state
\* are the pages of Pages, less (bound MaxHits) a resident page whose hit
\* would be one hit more than MaxHits standing in the counters of the list.
\* loadPage itself takes every request.
LFU_Requested(page) ==
    LFU_findFrame(FrameList, page) # NULL =>
        LFU_hitsHeld(FrameList, head) < MaxHits

Next ==
    \E page \in Pages :
        \/ LRU_loadPage(page)
        \/ policy = "LFU" /\ LFU_Requested(page) /\ LFU_loadPage(page)
        \/ Clock_loadPage(page)

Spec == Init /\ [][Next]_vars

\* A load or store through a NULL pointer is undefined behaviour.  The
\* programs as built (gcc, -O0 and -O2) and run as ordinary processes, where
\* address 0 is not mapped, are killed by SIGSEGV at the first such access;
\* a process with page 0 mapped is not modelled.
Segv(page) == [NoCall EXCEPT !.kind = "segv", !.page = page]

\* the process has not been killed
Running == last.kind # "segv"

\* createFrameList returned NULL: main holds no table and goes on to loadPage
NoList == [NoCall EXCEPT !.kind = "nolist"]

\* createFrameList returned a table
HasList == last.kind # "nolist"

\* the state after createFrameList, whose malloc may have failed
InitNoMem ==
    /\ policy \in Policies
    /\ mem = [a \in Addr |-> FreeNode]
    /\ head = NULL
    /\ tail = NULL
    /\ numFrames = 0
    /\ frames = [i \in Slots |-> EmptyFrame]
    /\ clockHand = 0
    /\ last \in {NoCall, NoList}
    /\ mru = <<>>
    /\ newest = <<>>
    /\ hits = [p \in Pages |-> 0]
    /\ fifo = [q |-> <<>>, allMiss |-> TRUE]

\* loadPage(NULL, page), under each policy: findFrame reads the table
\* through the NULL frameList
loadPageNoList(page) ==
    /\ last = NoList
    /\ last' = Segv(page)
    /\ UNCHANGED <<policy, mem, head, tail, numFrames, frames, clockHand, mru,
                   newest, hits, fifo>>

\* loadPage(page) in which createFrame returns NULL (malloc failed): the
\* miss branch stores "frame->page = page" through the NULL frame
LRU_loadPageNoMem(page) ==
    /\ policy = "LRU"
    /\ Running
    /\ HasList
    /\ LRU_findFrame(FrameList, page) = NULL
    /\ last' = Segv(page)
    /\ UNCHANGED <<policy, mem, head, tail, numFrames, frames, clockHand, mru,
                   newest, hits, fifo>>

LFU_loadPageNoMem(page) ==
    /\ policy = "LFU"
    /\ Running
    /\ HasList
    /\ LFU_findFrame(FrameList, page) = NULL
    /\ last' = Segv(page)
    /\ UNCHANGED <<policy, mem, head, tail, numFrames, frames, clockHand, mru,
                   newest, hits, fifo>>

\* the programs on a heap that can run out: createFrameList and any
\* createFrame may fail
NextNoMem ==
    \/ Running /\ HasList /\ Next
    \/ \E page \in Pages : LRU_loadPageNoMem(page) \/ LFU_loadPageNoMem(page)
    \/ \E page \in Pages : loadPageNoList(page)

SpecNoMem == InitNoMem /\ [][NextNoMem]_vars

\* ------------------------------------------------------------------------
\* What an observer reads from the frame table
\* ------------------------------------------------------------------------

Min(a, b) == IF a < b THEN a ELSE b

Take(s, n) == SubSeq(s, 1, Min(n, Len(s)))

RemoveAt(s, i) == SubSeq(s, 1, i - 1) \o SubSeq(s, i + 1, Len(s))

\* the list fl read from head to tail: pages, and pages with frequencies
PagesOf(fl) ==
    LET ns == Nodes(fl)
    IN [i \in 1..Len(ns) |-> fl.mem[ns[i]].page]

FreqsOf(fl) ==
    LET ns == Nodes(fl)
    IN [i \in 1..Len(ns) |-> <<fl.mem[ns[i]].page, fl.mem[ns[i]].frequency>>]

\* occupied frames: nodes reachable from head (lists), valid slots (Clock)
OccupiedOf(fr) == {i \in Slots : fr[i].valid}

OccupancyOf(fl, fr) ==
    IF policy = "Clock" THEN Cardinality(OccupiedOf(fr)) ELSE Len(PagesOf(fl))

ResidentOf(fl, fr) ==
    IF policy = "Clock" THEN {fr[i].page : i \in OccupiedOf(fr)}
    ELSE LET ps == PagesOf(fl) IN {ps[i] : i \in 1..Len(ps)}

\* the same of the current state
PageList == PagesOf(FrameList)

FreqList == FreqsOf(FrameList)

Occupied == OccupiedOf(frames)

Occupancy == OccupancyOf(FrameList, frames)

Resident == ResidentOf(FrameList, frames)

\* the lookup loadPage starts with finds a frame for page
Found(page) ==
    CASE policy = "LRU" -> LRU_findFrame(FrameList, page) # NULL
      [] policy = "LFU" -> LFU_findFrame(FrameList, page) # NULL
      [] policy = "Clock" -> Clock_findFrame(frames, page) # NotFound

\* ------------------------------------------------------------------------
\* Claims
\* ------------------------------------------------------------------------

\* C1: under each policy, after any sequence of loadPage calls with any
\* page ids, the number of occupied frames is at most NUM_FRAMES.
CapacityInvariant == Occupancy <= NUM_FRAMES

\* a miss on a full table has happened and the table is still exactly full
CapacityWitness ==
    /\ last.kind = "miss"
    /\ last.evict # "none"
    /\ Occupancy = NUM_FRAMES

\* C2: under each policy no page id is held by two occupied frames.
ResidencyUnique ==
    IF policy = "Clock"
    THEN \A i, j \in Occupied : frames[i].page = frames[j].page => i = j
    ELSE \A i, j \in 1..Len(PageList) : PageList[i] = PageList[j] => i = j

\* a resident page was requested again while the table was full
ResidencyUniqueWitness ==
    /\ last.kind = "hit"
    /\ last.page \in Resident
    /\ Occupancy = NUM_FRAMES

\* the lookup finds a frame exactly for the resident pages (the sentinel
\* under Clock aside, which it also finds in an empty slot)
LookupAgrees ==
    \A p \in Pages :
        (policy # "Clock" \/ p # EMPTY) => (Found(p) <=> p \in Resident)

\* one loadPage step, as MissEvictsOnlyWhenFull constrains it
MissStep ==
    LET p == last'.page
    IN ~Found(p) =>
          /\ p \in ResidentOf(FrameList', frames')
          /\ IF Occupancy < NUM_FRAMES
             THEN /\ Resident \subseteq ResidentOf(FrameList', frames')
                  /\ OccupancyOf(FrameList', frames') = Occupancy + 1
             ELSE /\ Cardinality(Resident \ ResidentOf(FrameList', frames')) = 1
                  /\ OccupancyOf(FrameList', frames') = NUM_FRAMES

\* C3: a loadPage(p) whose lookup misses leaves p resident; on a table that
\* is not full nothing is removed and occupancy grows by one, on a full
\* table exactly one resident page is removed and occupancy stays at
\* NUM_FRAMES.  (The lookup misses exactly when p is not resident, for every
\* p other than the sentinel under Clock.)
MissEvictsOnlyWhenFull == []LookupAgrees /\ [][MissStep]_vars

\* a miss that evicted has just happened under Clock
MissWitness ==
    /\ policy = "Clock"
    /\ last.kind = "miss"
    /\ last.evict = "slot"
    /\ last.page \in Resident
    /\ Occupancy = NUM_FRAMES

\* one loadPage step, as HitKeepsResidents constrains it
HitStep ==
    LET p == last'.page
    IN p \in Resident =>
          /\ Found(p)
          /\ ResidentOf(FrameList', frames') = Resident
          /\ OccupancyOf(FrameList', frames') = Occupancy

\* C4: a loadPage(p) with p resident before the call admits and evicts
\* nothing: resident set and occupied-frame count are unchanged.
HitKeepsResidents == [][HitStep]_vars

\* a hit has just happened under LFU on a full table
HitWitness ==
    /\ policy = "LFU"
    /\ last.kind = "hit"
    /\ last.page \in Resident
    /\ Occupancy = NUM_FRAMES

\* one loadPage step, as LRURecencyOrder constrains it
LRUMissStep ==
    LET p == last'.page
    IN (policy = "LRU" /\ ~Found(p) /\ Occupancy = NUM_FRAMES) =>
          PagesOf(FrameList') = <<p>> \o SubSeq(PageList, 1, NUM_FRAMES - 1)

\* C5: in LRU the list from head to tail is the distinct pages of the access
\* sequence, most recent access first, cut to the NUM_FRAMES most recent; a
\* miss on a full table evicts the tail and the other pages keep their
\* order behind the new head.
LRURecencyOrder ==
    /\ [](policy = "LRU" => PageList = Take(mru, NUM_FRAMES))
    /\ [][LRUMissStep]_vars

\* the tail was evicted although it was not the page inserted first
LRURecencyWitness ==
    /\ policy = "LRU"
    /\ last.kind = "miss"
    /\ last.evict = "tail"
    /\ Len(mru) > NUM_FRAMES
    /\ \E i \in 1..Len(mru) : mru[i] = EMPTY

\* one loadPage step, as LRUHitMovesToHead constrains it
LRUHitStep ==
    LET p == last'.page
    IN (policy = "LRU" /\ p \in Resident) =>
          /\ PagesOf(FrameList') = <<p>> \o Without(PageList, p)
          /\ OccupancyOf(FrameList', frames') = Occupancy
          /\ (last.kind = "hit" /\ last.page = p) => FrameList' = FrameList

\* C6: in LRU a hit on p moves p to the head, keeps the occupied-frame count
\* and the relative order of the other pages; a second consecutive hit on p
\* leaves the whole list unchanged.
LRUHitMovesToHead == [][LRUHitStep]_vars

\* the same page was hit twice in a row on a full table
LRUHitWitness ==
    /\ policy = "LRU"
    /\ last.kind = "hit"
    /\ last.again
    /\ Occupancy = NUM_FRAMES
    /\ PageList[1] = last.page

\* one loadPage step, as LFUVictimIsHeadmostMinimum constrains it
LFUMissStep ==
    LET p == last'.page
    IN (policy = "LFU" /\ ~Found(p) /\ Occupancy = NUM_FRAMES) =>
            LET fmin == CHOOSE f \in {FreqList[i][2] : i \in 1..Len(FreqList)} :
                            \A i \in 1..Len(FreqList) : f <= FreqList[i][2]
                v == CHOOSE i \in 1..Len(FreqList) :
                            /\ FreqList[i][2] = fmin
                            /\ \A j \in 1..(i - 1) : FreqList[j][2] # fmin
            IN FreqsOf(FrameList') = <<<<p, 1>>>> \o RemoveAt(FreqList, v)

\* C7: in LFU a miss on a full table evicts the frame of minimum frequency,
\* the one closest to the head among those tied, and inserts the new page at
\* the head with frequency 1.
LFUVictimIsHeadmostMinimum == [][LFUMissStep]_vars

\* the victim was behind the head and had frequency 1, and a frame tied
\* with it at frequency 1 was left in the list
LFUVictimWitness ==
    /\ policy = "LFU"
    /\ last.kind = "miss"
    /\ last.evict = "behind"
    /\ \E i \in 2..Len(FreqList) : FreqList[i][2] = 1

\* one loadPage step, as LFUNewestIsNextVictim constrains it
LFUNewestStep ==
    LET p == last'.page
    IN (policy = "LFU" /\ ~Found(p) /\ Occupancy = NUM_FRAMES /\ newest # <<>>) =>
            /\ newest[1] = PageList[1]
            /\ newest[1] \notin ResidentOf(FrameList', frames')
            /\ ResidentOf(FrameList', frames') = (Resident \ {newest[1]}) \cup {p}

\* C8: in LFU with a full table, a page admitted by a miss and not hit since
\* is the victim of the next miss, whatever hits other pages received.
LFUNewestIsNextVictim == [][LFUNewestStep]_vars

\* the newest page was evicted by the next miss after hits on other pages
LFUNewestWitness ==
    /\ policy = "LFU"
    /\ last.kind = "miss"
    /\ last.evict = "freshHits"

\* one loadPage step, as ClockMissClaimsFirstFree constrains it
ClockMissStep ==
    LET p == last'.page
    IN (policy = "Clock" /\ ~Found(p)) =>
            LET h == clockHand
                at(k) == (h + k) % NUM_FRAMES
                stops == {k \in 0..(NUM_FRAMES - 1) :
                             ~frames[at(k)].valid \/ ~frames[at(k)].reference}
                d == IF stops = {} THEN NUM_FRAMES
                     ELSE CHOOSE k \in stops : \A m \in stops : k <= m
                c == at(d)
            IN /\ \A i \in Slots :
                    LET k == (i - h + NUM_FRAMES) % NUM_FRAMES
                    IN IF i = c
                       THEN frames'[i] = [page |-> p, valid |-> TRUE, reference |-> TRUE]
                       ELSE IF k < d
                       THEN /\ frames[i].valid
                            /\ frames'[i] = [frames[i] EXCEPT !.reference = FALSE]
                       ELSE frames'[i] = frames[i]
               /\ clockHand' = (c + 1) % NUM_FRAMES

\* C9: in Clock a miss with the hand at h claims the first slot in circular
\* order from h that is unoccupied or has reference bit false, or h itself
\* after a full sweep; slots passed over keep their page and lose their
\* reference bit, slots not reached are unchanged, the claimed slot holds the
\* new page with reference bit true, the hand ends one past the claimed slot.
ClockMissClaimsFirstFree == [][ClockMissStep]_vars

\* a scan passed over some slots, but not all, before it claimed one
ClockMissWitness ==
    /\ policy = "Clock"
    /\ last.kind = "miss"
    /\ last.steps \in 2..NUM_FRAMES
    /\ last.evict = "slot"

\* C10: in Clock the scan loop of a miss terminates, after at most
\* 2 * NUM_FRAMES iterations.
ClockScanBound ==
    policy = "Clock" =>
        /\ last.kind # "diverged"
        /\ last.kind = "miss" => last.steps \in 1..(2 * NUM_FRAMES)

\* a scan swept the whole table before it claimed the slot it started at
ClockScanWitness ==
    /\ policy = "Clock"
    /\ last.kind = "miss"
    /\ last.steps = NUM_FRAMES + 1

\* one loadPage step, as SentinelRejected constrains it
SentinelStep ==
    last'.page = EMPTY =>
        UNCHANGED <<mem, head, tail, numFrames, frames, clockHand>>

\* C11: under each policy loadPage(-1) is rejected before any mutation: the
\* frame table, the policy metadata and (Clock) the hand are left unchanged.
SentinelRejected == [][SentinelStep]_vars

\* one loadPage step, as OccupancyMonotone constrains it
OccupancyStep ==
    \E before \in {Occupancy} :
    \E after \in {OccupancyOf(FrameList', frames')} :
        /\ after >= before
        /\ before = NUM_FRAMES => after = NUM_FRAMES
        /\ policy = "Clock" => OccupiedOf(frames) \subseteq OccupiedOf(frames')

\* C12: under each policy the occupied-frame count seen between loadPage
\* calls never decreases, a frame once occupied never becomes empty again,
\* and once occupancy has reached NUM_FRAMES it is NUM_FRAMES after every
\* later call.
OccupancyMonotone == [][OccupancyStep]_vars

\* a miss under LFU evicted a victim behind the head and the table is full
OccupancyWitness ==
    /\ policy = "LFU"
    /\ last.kind = "miss"
    /\ last.evict = "behind"
    /\ Occupancy = NUM_FRAMES

\* one loadPage step, as AllocFailureContained constrains it
AllocFailStep ==
    (\E page \in Pages : LRU_loadPageNoMem(page) \/ LFU_loadPageNoMem(page)) =>
        /\ last'.kind # "segv"
        /\ UNCHANGED <<mem, head, tail, numFrames>>

\* C13: in LRU and LFU a miss in which createFrame returns NULL fails with
\* the list as it was: no resident frame evicted, list and numFrames
\* unchanged, and no NULL frame dereferenced or linked into the list.
AllocFailureContained == [][AllocFailStep]_vars

\* the frequency counters after a hit on the page of the i-th list node
BumpAt(fs, i) == [fs EXCEPT ![i] = <<fs[i][1], fs[i][2] + 1>>]

\* one loadPage step, as LFUFrequencyCountsHits constrains it
LFUFrequencyStep ==
    LET p == last'.page
    IN policy = "LFU" =>
          \E after \in {FreqsOf(FrameList')} :
             IF p \in Resident
             THEN \E i \in 1..Len(FreqList) :
                     /\ FreqList[i][1] = p
                     /\ after = BumpAt(FreqList, i)
             ELSE after[1] = <<p, 1>>

\* C14: in LFU every resident frame's frequency is 1 plus the number of hits
\* on its page since the page was last admitted, so it is at least 1; a hit
\* raises exactly one counter, by exactly 1, and a page admitted again after
\* an eviction starts at 1 again.
LFUFrequencyCountsHits ==
    /\ [](policy = "LFU" =>
            \A i \in 1..Len(FreqList) :
               /\ FreqList[i][2] = 1 + hits[FreqList[i][1]]
               /\ FreqList[i][2] >= 1)
    /\ [][LFUFrequencyStep]_vars

\* a miss on a full table that followed hits: the page just admitted has
\* count 1, beside a page whose count the hits raised
LFUFrequencyWitness ==
    /\ policy = "LFU"
    /\ last.kind = "miss"
    /\ last.evict = "freshHits"
    /\ FreqList[1] = <<last.page, 1>>
    /\ \E i \in 2..Len(FreqList) : FreqList[i][2] >= 2

\* one loadPage step, as LFUHitOnlyCounts constrains it
LFUHitStep ==
    LET p == last'.page
    IN (policy = "LFU" /\ p \in Resident) =>
          \E frame \in {LFU_findFrame(FrameList, p)} :
             /\ frame # NULL
             /\ mem' = [mem EXCEPT ![frame].frequency = @ + 1]
             /\ UNCHANGED <<head, tail, numFrames>>

\* C15: in LFU a hit on page p raises the frequency of p's frame and changes
\* nothing else: the order of the list, head, tail, numFrames and the
\* frequency of every other frame stay as they were.
LFUHitOnlyCounts == [][LFUHitStep]_vars

\* a hit on a page that is neither at the head nor at the tail of a full list
LFUHitWitness ==
    /\ policy = "LFU"
    /\ last.kind = "hit"
    /\ Occupancy = NUM_FRAMES
    /\ \E i \in 2..(NUM_FRAMES - 1) : PageList[i] = last.page

\* one loadPage step, as ClockHitSetsReference constrains it
ClockHitStep ==
    LET p == last'.page
    IN (policy = "Clock" /\ p \in Resident) =>
          \E i \in {Clock_findFrame(frames, p)} :
             /\ i \in Occupied
             /\ frames' = [frames EXCEPT ![i].reference = TRUE]
             /\ UNCHANGED <<clockHand, numFrames>>

\* C16: in Clock a hit on a resident page p sets the reference bit of p's
\* frame and changes nothing else: the hand, the page and valid flag of
\* every frame and every other reference bit stay as they were.
ClockHitSetsReference == [][ClockHitStep]_vars

\* a hit set a reference bit that a scan had cleared, away from the hand
ClockHitWitness ==
    /\ policy = "Clock"
    /\ last.kind = "hit"
    /\ last.page \in Resident
    /\ Occupancy = NUM_FRAMES
    /\ \E i \in Slots :
          /\ frames[i].page = last.page
          /\ i # clockHand
          /\ \E j \in Slots : ~frames[j].reference

\* one loadPage step, as ClockHandAdvances constrains it
ClockHandStep ==
    LET p == last'.page
    IN policy = "Clock" =>
          /\ Found(p) => (last'.steps = 0 /\ clockHand' = clockHand)
          /\ ~Found(p) => last'.steps >= 1
          /\ clockHand' = (clockHand + last'.steps) % NUM_FRAMES

\* C17: in Clock the hand is 0 after construction and always in
\* 0..NUM_FRAMES-1; a hit leaves it alone, and a miss moves it forward by 1
\* modulo NUM_FRAMES for each iteration of its scan, never back and never
\* to 0 otherwise.
ClockHandAdvances ==
    /\ [](policy = "Clock" =>
            /\ clockHand \in Slots
            /\ last.kind = "none" => clockHand = 0)
    /\ [][ClockHandStep]_vars

\* a scan passed over a referenced slot and wrapped the hand around to 0
ClockHandWitness ==
    /\ policy = "Clock"
    /\ last.kind = "miss"
    /\ last.steps = 2
    /\ clockHand = 0
    /\ frames[NUM_FRAMES - 1].page = last.page

\* C18: in LRU and LFU, after every loadPage, the list is well formed:
\* numFrames is the number of nodes reached from head by next, head.prev and
\* tail.next are NULL, next and prev are inverse on adjacent nodes, tail is
\* the last node reached from head, head and tail are NULL exactly when
\* numFrames is 0, and every node has valid = true.
ListWellFormed ==
    policy \in {"LRU", "LFU"} =>
        \E ns \in {Nodes(FrameList)} :
           \E n \in {Len(ns)} :
              /\ numFrames = n
              /\ (head = NULL) <=> (n = 0)
              /\ (tail = NULL) <=> (n = 0)
              /\ n > 0 => /\ head = ns[1]
                          /\ tail = ns[n]
                          /\ mem[head].prev = NULL
                          /\ mem[tail].next = NULL
              /\ \A i \in 1..(n - 1) :
                    /\ mem[ns[i]].next = ns[i + 1]
                    /\ mem[ns[i + 1]].prev = ns[i]
              /\ \A i \in 1..n : mem[ns[i]].alloc /\ mem[ns[i]].valid

\* a full LRU list that has seen insertions, an eviction and a move to head
ListWellFormedWitness ==
    /\ policy = "LRU"
    /\ last.kind = "hit"
    /\ ~last.again
    /\ numFrames = NUM_FRAMES
    /\ Len(mru) > NUM_FRAMES
    /\ mem[head].page = last.page

\* C19: in Clock, after any sequence of loadPage calls, FrameList.numFrames
\* is the number of occupied (valid) frames.
ClockNumFramesCountsOccupied ==
    policy = "Clock" => numFrames = Cardinality(Occupied)

\* one loadPage step, as ClockFillsInOrder constrains it
ClockFillStep ==
    LET p == last'.page
    IN (policy = "Clock" /\ ~Found(p) /\ Occupancy < NUM_FRAMES) =>
          /\ ~frames[clockHand].valid
          /\ last'.steps = 1
          /\ frames' = [frames EXCEPT ![clockHand] =
                            [page |-> p, valid |-> TRUE, reference |-> TRUE]]

\* C20: in Clock, while k < NUM_FRAMES frames are occupied, the occupied
\* frames are the slots 0..k-1, the hand is k and every unoccupied frame
\* holds page -1; so a miss on such a table claims the empty slot at the
\* hand in one scan iteration, clears no reference bit and overwrites no
\* resident page.
ClockFillsInOrder ==
    /\ [](policy = "Clock" =>
            \E k \in {Cardinality(Occupied)} :
               /\ \A i \in Slots \ Occupied : frames[i].page = EMPTY
               /\ k < NUM_FRAMES => (Occupied = 0..(k - 1) /\ clockHand = k))
    /\ [][ClockFillStep]_vars

\* a miss claimed the third slot of a table with two occupied frames
ClockFillWitness ==
    /\ policy = "Clock"
    /\ last.kind = "miss"
    /\ last.steps = 1
    /\ Occupied = 0..2
    /\ clockHand = 3
    /\ frames[2] = [page |-> last.page, valid |-> TRUE, reference |-> TRUE]
    /\ ~frames[3].valid

\* the pages of a queue
QueuePages(q) == {q[i] : i \in 1..Len(q)}

\* one loadPage step, as ClockWithoutHitsIsFIFO constrains it
ClockFIFOStep ==
    (policy = "Clock" /\ fifo'.allMiss) =>
        \E evicted \in {Resident \ ResidentOf(FrameList', frames')} :
           IF Len(fifo.q) = NUM_FRAMES
           THEN evicted = {Head(fifo.q)}
           ELSE evicted = {}

\* C21: in Clock, on an access sequence in which every loadPage misses, the
\* resident set after each call is that of a FIFO queue of capacity
\* NUM_FRAMES run on the same sequence, and each miss on a full table
\* evicts the page the queue evicts, the one loaded earliest.
ClockWithoutHitsIsFIFO ==
    /\ []((policy = "Clock" /\ fifo.allMiss) => Resident = QueuePages(fifo.q))
    /\ [][ClockFIFOStep]_vars

\* without any hit, a miss evicted after a full sweep and the next one
\* evicted at once
ClockFIFOWitness ==
    /\ policy = "Clock"
    /\ fifo.allMiss
    /\ last.kind = "miss"
    /\ last.evict = "slot"
    /\ last.steps = 1
    /\ clockHand = 2
    /\ fifo.q[NUM_FRAMES] = last.page

====
